---- MODULE Spec2Model ----
(***************************************************************************)
(* The attempt-windowed rate limiter of src/lib/rateLimit.ts               *)
(* (src/unnamed/part_002).  The store is the rate_limit_logs table; every  *)
(* awaited store statement of rateLimit is one atomic step, so that calls  *)
(* can interleave between statements.  Times are integer milliseconds      *)
(* counted from an arbitrary origin.                                       *)
(***************************************************************************)
EXTENDS Integers, Sequences, FiniteSets, TLC

\* store    the rate_limit_logs table, rows in insertion order
\* clock    the wall clock (Date), in milliseconds
\* call     per call in flight: the arguments, the locals of rateLimit, the
\*          statement it is at (pc) and its result; before and raced are
\*          history (the table at entry, a shared count) and steer nothing,
\*          as are entry and args (the exported function called, if any,
\*          and the arguments it was given)
\* hist     per key, what its callers have observed so far (history)
\* started  calls entered so far; thrown, store statements that raised
\* callers  the (type, identifier) pairs that make calls in this run
VARIABLES store, clock, call, hist, started, thrown, callers

vars == <<store, clock, call, hist, started, thrown, callers>>

(* ------------------------------ bounds -------------------------------- *)

\* Calls started in a run of two callers, one call at a time.
MaxCalls == 5

\* Calls started in a run of a single caller, one call at a time.
MaxBurst == 7

\* Calls started in a run with a failing store.
MaxFaultCalls == 5

\* Calls started in a run of interleaved calls.
MaxConcCalls == 4

\* Store statements that raise in one run.
MaxThrows == 2

\* Calls started in a run of calls made through the exported wrappers.
MaxWrapCalls == 4

\* Calls started in a run whose callers pass any string as the type.
MaxTypeCalls == 4

(* --------------------------- configuration ---------------------------- *)

rateLimitConfigs ==
  [ auth           |-> [ windowMs        |-> 15 * 60 * 1000,
                         maxAttempts     |-> 5,
                         blockDurationMs |-> 60 * 60 * 1000 ],
    password_reset |-> [ windowMs        |-> 60 * 60 * 1000,
                         maxAttempts     |-> 3,
                         blockDurationMs |-> 24 * 60 * 60 * 1000 ],
    api_general    |-> [ windowMs        |-> 60 * 1000,
                         maxAttempts     |-> 100,
                         blockDurationMs |-> 5 * 60 * 1000 ] ]

Types == DOMAIN rateLimitConfigs

\* Strings that are not keys of rateLimitConfigs (the parameter's type,
\* keyof Record<string, ...>, admits every string): a name found nowhere on
\* the object, and a name the object literal inherits from Object.prototype.
Inherited == {"constructor"}

OtherTypes == {"signup"} \cup Inherited

\* What rateLimitConfigs[type] evaluates to (line 55): a configuration, an
\* object without the three fields, or undefined.
ConfigKind(type) ==
  IF type \in Types THEN "config"
  ELSE IF type \in Inherited THEN "object" ELSE "undefined"

\* The values undefined and NaN where a result carries them for a number.
Undefined == -2

NaN == -3

\* Caller-supplied identifiers (opaque strings).
Identifiers == {"ip1", "ip2"}

\* The identifier the GET handler of /api/notifications passes.
RouteIdentifiers == {"notifications-get"}

\* What the clock may have advanced by when a call reads it: nothing, half a
\* second, or one hour (the auth block duration, the password_reset window).
Deltas == {0, 500, 60 * 60 * 1000}

\* The same for interleaved calls, which follow one another closely.
ConcDeltas == {0, 500}

\* The clock's value when the first call is made.
StartTime == 24 * 60 * 60 * 1000

Procs == {1, 2}

(* ------------------------------ helpers ------------------------------- *)

\* A variant that drops the milliseconds (a timestamp to the second).
toISOStringSeconds(ms) == <<ms \div 1000, 0>>

\* Date.prototype.toISOString: the instant as calendar fields down to the
\* millisecond; the model keeps the whole seconds and the milliseconds.
toISOString(ms) == <<ms \div 1000, ms % 1000>>

\* new Date(iso).getTime()
getTime(iso) == iso[1] * 1000 + iso[2]

\* The store's comparison of two timestamps.
TsLt(a, b) == a[1] < b[1] \/ (a[1] = b[1] /\ a[2] < b[2])

TsGte(a, b) == ~TsLt(a, b)

\* A variant that rounds down (Math.floor).
MathFloor(a, b) == a \div b

\* Math.ceil(a / b) for b > 0.
MathCeil(a, b) == -((-a) \div b)

MathMax(a, b) == IF a >= b THEN a ELSE b

\* key = `${type}_${identifier}`
KeyOf(type, identifier) == type \o "_" \o identifier

Keys ==
  {KeyOf(t, i) : t \in Types \cup OtherTypes,
                 i \in Identifiers \cup RouteIdentifiers}

NoResult == [allowed |-> FALSE, remaining |-> -1, resetTime |-> -1]

IdleCall ==
  [ pc |-> "idle", identifier |-> "", success |-> TRUE, type |-> "auth",
    now |-> 0, currentCount |-> 0, result |-> NoResult, threw |-> FALSE,
    before |-> <<>>, raced |-> FALSE, entry |-> "rateLimit", args |-> <<>> ]

CallKey(c) == KeyOf(c.type, c.identifier)

Config(c) == rateLimitConfigs[c.type]

(* --------------------------- store statements -------------------------- *)

\* A variant of the clean-up with .lte("created_at", ts).
DeleteNotNewerThan(s, ts) == SelectSeq(s, LAMBDA r : TsLt(ts, r.created_at))

\* .delete().lt("created_at", ts)
DeleteOlderThan(s, ts) == SelectSeq(s, LAMBDA r : ~TsLt(r.created_at, ts))

\* A variant of the block check's select that matches no record.
ActiveBlocksNone(s, key, ts) == {}

\* .select("*").eq("identifier", key).eq("blocked", true).gte("created_at", ts)
ActiveBlocks(s, key, ts) ==
  { i \in 1..Len(s) : /\ s[i].identifier = key
                      /\ s[i].blocked
                      /\ TsGte(s[i].created_at, ts) }

\* .order("created_at", {ascending: false}).limit(1).single(): the rows with
\* the greatest created_at among the matches (any one of them is returned).
MostRecent(s, rows) ==
  { i \in rows : \A j \in rows : TsGte(s[i].created_at, s[j].created_at) }

\* A variant of the count without .eq("identifier", key).
CountAttemptsAnyKey(s, key, ts) ==
  Cardinality({ i \in 1..Len(s) : ~s[i].blocked /\ TsGte(s[i].created_at, ts) })

\* A variant of the count without .gte("created_at", ts).
CountAttemptsAnyAge(s, key, ts) ==
  Cardinality({ i \in 1..Len(s) : s[i].identifier = key /\ ~s[i].blocked })

\* .select("*", {count: "exact"}).eq("identifier", key).eq("blocked", false)
\*   .gte("created_at", ts)
CountAttempts(s, key, ts) ==
  Cardinality({ i \in 1..Len(s) : /\ s[i].identifier = key
                                  /\ ~s[i].blocked
                                  /\ TsGte(s[i].created_at, ts) })

\* A variant of the insert that stores the count read, not the count plus
\* this attempt.
InsertRowStaleCount(s, key, n, blocked, ts) ==
  Append(s, [ identifier |-> key, attempt_count |-> n - 1,
              blocked |-> blocked, created_at |-> ts ])

\* A variant of the insert that overwrites the key's record of the same kind,
\* if there is one, instead of adding a record (an upsert).
UpsertRow(s, key, n, blocked, ts) ==
  LET new == [ identifier |-> key, attempt_count |-> n,
               blocked |-> blocked, created_at |-> ts ]
  IN  IF \E i \in 1..Len(s) : s[i].identifier = key /\ s[i].blocked = blocked
        THEN [ i \in 1..Len(s) |->
                 IF s[i].identifier = key /\ s[i].blocked = blocked
                   THEN new ELSE s[i] ]
        ELSE Append(s, new)

\* .insert({identifier, attempt_count, blocked, created_at})
InsertRow(s, key, n, blocked, ts) ==
  Append(s, [ identifier |-> key, attempt_count |-> n,
              blocked |-> blocked, created_at |-> ts ])

\* A variant of the reset with .eq("blocked", true).
DeleteBlocks(s, key) ==
  SelectSeq(s, LAMBDA r : ~(r.identifier = key /\ r.blocked))

\* A variant of the reset without .eq("identifier", key).
DeleteAllAttempts(s, key) == SelectSeq(s, LAMBDA r : r.blocked)

\* A variant of the reset that deletes nothing.
DeleteNothing(s, key) == s

\* .delete().eq("identifier", key).eq("blocked", false)
DeleteAttempts(s, key) ==
  SelectSeq(s, LAMBDA r : ~(r.identifier = key /\ ~r.blocked))

(* ------------------------------ results ------------------------------- *)

\* A variant in which a success call is let through a block.
BlockedResultUnlessSuccess(c, entry) ==
  [ allowed   |-> c.success,
    remaining |-> 0,
    resetTime |-> MathMax(MathCeil(getTime(entry.created_at)
                                     + Config(c).blockDurationMs - c.now, 1000),
                          0) ]

\* The result of a call that found a block record (lines 85-95).
BlockedResult(c, entry) ==
  [ allowed   |-> FALSE,
    remaining |-> 0,
    resetTime |-> MathMax(MathCeil(getTime(entry.created_at)
                                     + Config(c).blockDurationMs - c.now, 1000),
                          0) ]

\* The result of the call that crosses the limit (lines 128-132).
LimitResult(c) ==
  [ allowed   |-> FALSE,
    remaining |-> 0,
    resetTime |-> MathCeil(Config(c).blockDurationMs, 1000) ]

\* A variant in which a success call reports the count after its purge.
AllowResultAfterPurge(c) ==
  [ allowed   |-> TRUE,
    remaining |-> IF c.success THEN Config(c).maxAttempts
                  ELSE MathMax(0, Config(c).maxAttempts - (c.currentCount + 1)),
    resetTime |-> MathCeil(Config(c).windowMs, 1000) ]

\* A variant that leaves the attempt being recorded out of remaining.
AllowResultWithoutThis(c) ==
  [ allowed   |-> TRUE,
    remaining |-> MathMax(0, Config(c).maxAttempts - c.currentCount),
    resetTime |-> MathCeil(Config(c).windowMs, 1000) ]

\* A variant of AllowResult without the clamp at zero.
AllowResultUnclamped(c) ==
  [ allowed   |-> TRUE,
    remaining |-> Config(c).maxAttempts
                    - (c.currentCount + (IF c.success THEN 0 ELSE 1)),
    resetTime |-> MathCeil(Config(c).windowMs, 1000) ]

\* The result of an allowed call (lines 145-152).
AllowResult(c) ==
  [ allowed   |-> TRUE,
    remaining |-> MathMax(0, Config(c).maxAttempts
                               - (c.currentCount + (IF c.success THEN 0 ELSE 1))),
    resetTime |-> MathCeil(Config(c).windowMs, 1000) ]

\* A variant of the catch block that fails closed.
FailClosedResult(c) ==
  [ allowed   |-> FALSE,
    remaining |-> 0,
    resetTime |-> MathCeil(Config(c).windowMs, 1000) ]

\* The result of the catch block when config is an object without the three
\* fields: maxAttempts is undefined and Math.ceil(undefined / 1000) is NaN.
FailOpenResultNoFields ==
  [ allowed |-> TRUE, remaining |-> Undefined, resetTime |-> NaN ]

\* The result of the catch block (lines 156-160).
FailOpenResult(c) ==
  [ allowed   |-> TRUE,
    remaining |-> Config(c).maxAttempts,
    resetTime |-> MathCeil(Config(c).windowMs, 1000) ]

\* A variant that blocks one attempt early.
LimitExceededEarly(c) ==
  ~c.success /\ c.currentCount + 2 >= Config(c).maxAttempts

\* A variant with the limit test off by one (> for >=).
LimitExceededStrict(c) ==
  ~c.success /\ c.currentCount + 1 > Config(c).maxAttempts

\* Whether the failing call crosses the limit (line 119).
LimitExceeded(c) == ~c.success /\ c.currentCount + 1 >= Config(c).maxAttempts

(* ------------------------------ wrappers ------------------------------ *)

\* The i-th argument of an argument list, or the parameter's default value
\* when the list is shorter.
Arg(args, i, default) == IF Len(args) >= i THEN args[i] ELSE default

\* A variant of rateLimitAPI that hands a third argument on as the type.
rateLimitAPIWithType(args) ==
  [ identifier |-> args[1], success |-> Arg(args, 2, TRUE),
    type |-> Arg(args, 3, "api_general") ]

\* A variant of rateLimitAPI in which success defaults to false.
rateLimitAPIDefaultFalse(args) ==
  [ identifier |-> args[1], success |-> Arg(args, 2, FALSE),
    type |-> "api_general" ]

\* The arguments rateLimitAuth hands to rateLimit (lines 35-41).
rateLimitAuth(args) ==
  [ identifier |-> args[1], success |-> Arg(args, 2, TRUE),
    type |-> Arg(args, 3, "auth") ]

\* The arguments rateLimitAPI hands to rateLimit (lines 43-48); arguments
\* after the second are dropped.
rateLimitAPI(args) ==
  [ identifier |-> args[1], success |-> Arg(args, 2, TRUE),
    type |-> "api_general" ]

\* The arguments the function made by createRateLimitMiddleware(...made)
\* hands to rateLimit when called with (...args) (lines 165-171): success is
\* always true, arguments after the first are dropped.
createRateLimitMiddleware(made, args) ==
  [ identifier |-> args[1], success |-> TRUE,
    type |-> Arg(made, 1, "api_general") ]

\* The arguments the GET handler of /api/notifications hands to rateLimit
\* through rateLimitAPI (route.ts line 16).
GetNotifications == rateLimitAPI(<<"notifications-get">>)

(* --------------------------- a call by itself -------------------------- *)

\* rateLimit(identifier, success, type) run from start to end by itself on
\* table s at clock reading now, the store working (lines 55-152): the table
\* it leaves and the result it returns.
RunAlone(s, now, identifier, success, type) ==
  LET c    == [ IdleCall EXCEPT !.identifier = identifier, !.success = success,
                                !.type = type, !.now = now ]
      s1   == DeleteOlderThan(s, toISOString(now - Config(c).blockDurationMs))
      rows == ActiveBlocks(s1, CallKey(c),
                           toISOString(now - Config(c).blockDurationMs))
      c1   == [ c EXCEPT !.currentCount =
                  CountAttempts(s1, CallKey(c),
                                toISOString(now - Config(c).windowMs)) ]
      s2   == InsertRow(s1, CallKey(c), c1.currentCount + 1, FALSE,
                        toISOString(now))
  IN  IF rows # {}
        THEN [ store  |-> s1,
               result |-> BlockedResult(c, s1[CHOOSE i \in MostRecent(s1, rows) :
                                                TRUE]) ]
      ELSE IF success
        THEN [ store |-> DeleteAttempts(s1, CallKey(c)), result |-> AllowResult(c1) ]
      ELSE IF LimitExceeded(c1)
        THEN [ store  |-> InsertRow(s2, CallKey(c), c1.currentCount + 1, TRUE,
                                    toISOString(now)),
               result |-> LimitResult(c1) ]
      ELSE [ store |-> s2, result |-> AllowResult(c1) ]

(* ------------------------- observation history ------------------------ *)

\* What the callers of key k have seen so far: the failing calls returned
\* since the key was fresh or last had an allowed success call, the clock
\* reading of the first of them, the length of the run of failures that the
\* last allowed success call ended, the previous call's result (NoResult
\* after an allowed success call), the clock reading of the last block
\* record inserted for k, and the clock readings of the failing calls made
\* since the last success call for k (allowed or not) that the window of the
\* latest of them still covers, and the table as it would be had the calls
\* for k been the only calls, each run by itself at the time it was made.
NoHist ==
  [ fails |-> 0, since |-> 0, ended |-> 0, prev |-> NoResult, blockAt |-> -1,
    recent |-> <<>>, alone |-> <<>>, overlap |-> FALSE ]

\* What call c returns and leaves when run by itself on table s.
Alone(s, c) ==
  IF ConfigKind(c.type) = "config"
    THEN RunAlone(s, c.now, c.identifier, c.success, c.type)
    ELSE [ store |-> s, result |-> c.result ]

\* The readings in times that the window of call c covers.
Recent(times, c) ==
  IF ConfigKind(c.type) = "config"
    THEN SelectSeq(times, LAMBDA t : t >= c.now - Config(c).windowMs)
    ELSE times

Cleared(c) == c.success /\ c.result.allowed /\ ~c.threw

Observe(h, c) ==
  [ fails   |-> IF Cleared(c) THEN 0
                ELSE IF c.success THEN h.fails ELSE h.fails + 1,
    since   |-> IF Cleared(c) THEN 0
                ELSE IF ~c.success /\ h.fails = 0 THEN c.now ELSE h.since,
    ended   |-> IF Cleared(c) /\ h.fails > 0 THEN h.fails ELSE h.ended,
    prev    |-> IF Cleared(c) THEN NoResult ELSE c.result,
    blockAt |-> h.blockAt,
    recent  |-> IF c.success THEN <<>> ELSE Append(Recent(h.recent, c), c.now),
    alone   |-> Alone(h.alone, c).store,
    overlap |-> h.overlap ]

(* ------------------------------- actions ------------------------------ *)

\* The (type, identifier) pairs that make calls in one run.
Caller(t, i) == <<t, i>>

InitWith(scenarios) ==
  /\ store = <<>>
  /\ clock = StartTime
  /\ call = [p \in Procs |-> IdleCall]
  /\ hist = [k \in Keys |-> NoHist]
  /\ started = 0
  /\ callers \in scenarios

\* rateLimit is entered (lines 55-58): config, now, windowStart and key.
\* With config undefined, config.windowMs (line 57) raises a TypeError before
\* the try block and the promise is rejected.
\* entry and args note, for the history, the exported function the call came
\* through and the arguments that function was given; overlap notes that the
\* call was entered while another call for the same key was at one of its
\* store statements.
BeginAs(p, entry, args, identifier, success, type, d) ==
  /\ call[p].pc = "idle"
  /\ clock' = clock + d
  /\ call' = [call EXCEPT ![p] =
                [ IdleCall EXCEPT !.pc = IF ConfigKind(type) = "undefined"
                                          THEN "rejected" ELSE "cleanup",
                                  !.identifier = identifier,
                                  !.success = success, !.type = type,
                                  !.now = clock + d, !.before = store,
                                  !.entry = entry, !.args = args ]]
  /\ started' = started + 1
  /\ hist' = IF \E q \in Procs \ {p} :
                  /\ call[q].pc \notin {"idle", "done", "rejected"}
                  /\ CallKey(call[q]) = KeyOf(type, identifier)
               THEN [hist EXCEPT ![KeyOf(type, identifier)].overlap = TRUE]
               ELSE hist
  /\ UNCHANGED <<store, callers>>

\* rateLimit is called directly.
Begin(p, identifier, success, type, d) ==
  BeginAs(p, "rateLimit", <<>>, identifier, success, type, d)

\* A variant of the clean-up that touches only the records of the call's type.
CleanupOwnType(p) ==
  /\ call[p].pc = "cleanup"
  /\ LET c  == call[p]
         ts == toISOString(c.now - Config(c).blockDurationMs)
     IN  store' = SelectSeq(store, LAMBDA r :
                    ~( /\ TsLt(r.created_at, ts)
                       /\ \E i \in Identifiers :
                            r.identifier = KeyOf(c.type, i) ))
  /\ call' = [call EXCEPT ![p].pc = "blockCheck"]
  /\ UNCHANGED <<clock, hist, started, callers>>

\* Clean up old entries (lines 62-68).  With config an object without
\* blockDurationMs the date of line 67 is invalid: toISOString raises a
\* RangeError before the statement is sent, and the catch block returns.
Cleanup(p) ==
  /\ call[p].pc = "cleanup"
  /\ IF ConfigKind(call[p].type) = "config"
       THEN /\ store' = DeleteOlderThan(store,
                          toISOString(call[p].now
                                        - Config(call[p]).blockDurationMs))
            /\ call' = [call EXCEPT ![p].pc = "blockCheck"]
       ELSE /\ store' = store
            /\ call' = [call EXCEPT ![p].pc = "done", ![p].threw = TRUE,
                                    ![p].result = FailOpenResultNoFields]
  /\ UNCHANGED <<clock, hist, started, callers>>

\* A variant of the block check that records the failing attempt of a call
\* it denies.
BlockCheckRecording(p) ==
  /\ call[p].pc = "blockCheck"
  /\ LET c    == call[p]
         rows == ActiveBlocks(store, CallKey(c),
                   toISOString(c.now - Config(c).blockDurationMs))
     IN  IF rows # {}
           THEN /\ \E i \in MostRecent(store, rows) :
                     call' = [call EXCEPT ![p].pc = "done",
                                          ![p].result = BlockedResult(c, store[i])]
                /\ store' = IF c.success THEN store
                            ELSE InsertRow(store, CallKey(c), 1, FALSE,
                                           toISOString(c.now))
           ELSE call' = [call EXCEPT ![p].pc = "count"] /\ store' = store
  /\ UNCHANGED <<clock, hist, started, callers>>

\* Check if currently blocked (lines 71-96).
BlockCheck(p) ==
  /\ call[p].pc = "blockCheck"
  /\ LET c    == call[p]
         rows == ActiveBlocks(store, CallKey(c),
                   toISOString(c.now - Config(c).blockDurationMs))
     IN  IF rows # {}
           THEN \E i \in MostRecent(store, rows) :
                  call' = [call EXCEPT ![p].pc = "done",
                                       ![p].result = BlockedResult(c, store[i])]
           ELSE call' = [call EXCEPT ![p].pc = "count"]
  /\ UNCHANGED <<store, clock, hist, started, callers>>

\* The calls in flight that have read the same count for the same key as
\* failing call c reads now (n) and have not recorded their attempt yet.
Racing(p, c, n) ==
  { q \in Procs \ {p} : /\ ~c.success
                         /\ call[q].pc = "record"
                         /\ CallKey(call[q]) = CallKey(c)
                         /\ call[q].currentCount = n }

\* Count recent attempts (lines 99-106).  raced notes, for the history, that
\* two calls held the same count before either recorded its attempt.
Count(p) ==
  /\ call[p].pc = "count"
  /\ LET c == call[p]
         n == CountAttempts(store, CallKey(c),
                            toISOString(c.now - Config(c).windowMs))
     IN  call' = [q \in Procs |->
                   IF q = p
                     THEN [c EXCEPT !.currentCount = n,
                                    !.pc = IF c.success THEN "reset" ELSE "record",
                                    !.raced = Racing(p, c, n) # {}]
                     ELSE IF q \in Racing(p, c, n)
                            THEN [call[q] EXCEPT !.raced = TRUE]
                            ELSE call[q]]
  /\ UNCHANGED <<store, clock, hist, started, callers>>

\* Record this attempt (lines 109-116), then the limit test of line 119; a
\* failing call under the limit returns from lines 145-152.
Record(p) ==
  /\ call[p].pc = "record"
  /\ LET c == call[p]
     IN  /\ store' = InsertRow(store, CallKey(c), c.currentCount + 1, FALSE,
                               toISOString(c.now))
         /\ call' = IF LimitExceeded(c)
                      THEN [call EXCEPT ![p].pc = "block"]
                      ELSE [call EXCEPT ![p].pc = "done",
                                        ![p].result = AllowResult(c)]
  /\ UNCHANGED <<clock, hist, started, callers>>

\* A variant of the blocking step that returns the denial and stores no
\* block record.
BlockUnrecorded(p) ==
  /\ call[p].pc = "block"
  /\ call' = [call EXCEPT ![p].pc = "done", ![p].result = LimitResult(call[p])]
  /\ hist' = [hist EXCEPT ![CallKey(call[p])].blockAt = call[p].now]
  /\ UNCHANGED <<store, clock, started, callers>>

\* Block the identifier (lines 121-132).
Block(p) ==
  /\ call[p].pc = "block"
  /\ LET c == call[p]
     IN  /\ store' = InsertRow(store, CallKey(c), c.currentCount + 1, TRUE,
                               toISOString(c.now))
         /\ call' = [call EXCEPT ![p].pc = "done", ![p].result = LimitResult(c)]
         /\ hist' = [hist EXCEPT ![CallKey(c)].blockAt = c.now]
  /\ UNCHANGED <<clock, started, callers>>

\* Reset counter on successful attempt and allow (lines 136-152).
Reset(p) ==
  /\ call[p].pc = "reset"
  /\ LET c == call[p]
     IN  /\ store' = DeleteAttempts(store, CallKey(c))
         /\ call' = [call EXCEPT ![p].pc = "done", ![p].result = AllowResult(c)]
  /\ UNCHANGED <<clock, hist, started, callers>>

\* A variant of Throw in which the store rolls the call's inserts back.
ThrowRollingBack(p) ==
  /\ call[p].pc \in {"cleanup", "blockCheck", "count", "record", "block", "reset"}
  /\ call' = [call EXCEPT ![p].pc = "done", ![p].threw = TRUE,
                          ![p].result = FailOpenResult(call[p])]
  /\ store' = SelectSeq(store, LAMBDA r :
                 \/ r.identifier # CallKey(call[p])
                 \/ r.created_at # toISOString(call[p].now))
  /\ thrown' = thrown + 1
  /\ UNCHANGED <<clock, hist, started, callers>>

\* The awaited store statement raises: the catch block (lines 153-161).
Throw(p) ==
  /\ call[p].pc \in {"cleanup", "blockCheck", "count", "record", "block", "reset"}
  /\ call' = [call EXCEPT ![p].pc = "done", ![p].threw = TRUE,
                          ![p].result = FailOpenResult(call[p])]
  /\ thrown' = thrown + 1
  /\ UNCHANGED <<store, clock, hist, started, callers>>

\* The promise resolves: the caller has the result.
Return(p) ==
  /\ call[p].pc = "done"
  /\ hist' = [hist EXCEPT ![CallKey(call[p])] = Observe(@, call[p])]
  /\ call' = [call EXCEPT ![p] = IdleCall]
  /\ UNCHANGED <<store, clock, started, callers>>

\* The promise is rejected: the caller has the error and no result.
Raise(p) ==
  /\ call[p].pc = "rejected"
  /\ call' = [call EXCEPT ![p] = IdleCall]
  /\ UNCHANGED <<store, clock, hist, started, callers>>

Step(p) ==
  \/ Cleanup(p) /\ UNCHANGED thrown
  \/ BlockCheck(p) /\ UNCHANGED thrown
  \/ Count(p) /\ UNCHANGED thrown
  \/ Record(p) /\ UNCHANGED thrown
  \/ Block(p) /\ UNCHANGED thrown
  \/ Reset(p) /\ UNCHANGED thrown
  \/ Return(p) /\ UNCHANGED thrown

Enter(p, deltas) ==
  /\ \E who \in callers, s \in BOOLEAN, d \in deltas :
       Begin(p, who[2], s, who[1], d)
  /\ UNCHANGED thrown

AllIdle == \A p \in Procs : call[p].pc = "idle"

\* Calls one at a time, the store working: two callers of different types,
\* two callers of one type, or one caller of type auth making a longer run
\* of calls.
SeqScenarios ==
  { {Caller("password_reset", "ip1"), Caller("api_general", "ip2")},
    {Caller("password_reset", "ip1"), Caller("password_reset", "ip2")},
    {Caller("auth", "ip1"), Caller("auth", "ip2")},
    {Caller("auth", "ip1")} }

Budget == IF Cardinality(callers) = 1 THEN MaxBurst ELSE MaxCalls

InitSeq == InitWith(SeqScenarios) /\ thrown = 0

NextSeq ==
  \/ (AllIdle /\ started < Budget /\ Enter(1, Deltas))
  \/ Step(1)

SpecSeq == InitSeq /\ [][NextSeq]_vars

\* Calls one at a time, the store raising at some statements: one caller, or
\* two callers of one type making fewer calls that follow one another closely.
FaultScenarios ==
  { {Caller("password_reset", "ip1")},
    {Caller("password_reset", "ip1"), Caller("password_reset", "ip2")} }

FaultDeltas == IF Cardinality(callers) = 1 THEN Deltas ELSE ConcDeltas

FaultBudget ==
  IF Cardinality(callers) = 1 THEN MaxFaultCalls ELSE MaxFaultCalls - 1

InitFault == InitWith(FaultScenarios) /\ thrown = 0

NextFault ==
  \/ (AllIdle /\ started < FaultBudget /\ Enter(1, FaultDeltas))
  \/ Step(1)
  \/ (thrown < MaxThrows /\ Throw(1))

SpecFault == InitFault /\ [][NextFault]_vars

\* Calls interleaved statement by statement, the store working.  The two
\* calls in flight are interchangeable: the second slot is used only by a call
\* that overlaps one in the first.
ConcScenarios == { {Caller("password_reset", "ip1")} }

Init == InitWith(ConcScenarios) /\ thrown = 0

Next ==
  \/ (started < MaxConcCalls /\ Enter(1, ConcDeltas))
  \/ (started < MaxConcCalls /\ call[1].pc # "idle" /\ Enter(2, ConcDeltas))
  \/ \E p \in Procs : Step(p)

Spec == Init /\ [][Next]_vars

\* Calls one at a time, the store working, the callers passing registered
\* and unregistered types.
TypeScenarios ==
  { {Caller("password_reset", "ip1"), Caller("signup", "ip1"),
     Caller("constructor", "ip1")} }

InitType == InitWith(TypeScenarios) /\ thrown = 0

NextType ==
  \/ (AllIdle /\ started < MaxTypeCalls /\ Enter(1, ConcDeltas))
  \/ Step(1)
  \/ (Raise(1) /\ UNCHANGED thrown)

SpecType == InitType /\ [][NextType]_vars

\* An exported wrapper is called (lines 35-48) and enters rateLimit with the
\* arguments it hands on.
Invoke(p, entry, args, d) ==
  LET a == IF entry = "rateLimitAuth" THEN rateLimitAuth(args)
           ELSE IF entry = "rateLimitAPI" THEN rateLimitAPI(args)
           ELSE IF entry = "createRateLimitMiddleware"
             THEN createRateLimitMiddleware(args[1], args[2])
           ELSE GetNotifications
  IN  /\ Caller(a.type, a.identifier) \in callers
      /\ BeginAs(p, entry, args, a.identifier, a.success, a.type, d)

\* The argument lists the wrappers are called with: the identifier alone,
\* with success, and with a third argument.
WrapArgs ==
  { <<"ip1">> } \cup { <<"ip1", s>> : s \in BOOLEAN }
    \cup { <<"ip1", s, t>> : s \in BOOLEAN, t \in {"auth", "password_reset"} }

\* The argument lists createRateLimitMiddleware and the function it makes
\* are called with.
MiddlewareArgs ==
  { <<made, args>> : made \in {<<>>, <<"auth">>},
                     args \in {<<"ip1">>, <<"ip1", FALSE>>} }

WrapScenarios ==
  { {Caller("auth", "ip1"), Caller("password_reset", "ip1"),
     Caller("api_general", "ip1"), Caller("api_general", "notifications-get")} }

InitWrap == InitWith(WrapScenarios) /\ thrown = 0

NextWrap ==
  \/ /\ AllIdle
     /\ started < MaxWrapCalls
     /\ \E entry \in {"rateLimitAuth", "rateLimitAPI"}, args \in WrapArgs,
           d \in ConcDeltas : Invoke(1, entry, args, d)
     /\ UNCHANGED thrown
  \/ /\ AllIdle
     /\ started < MaxWrapCalls
     /\ \E args \in MiddlewareArgs, d \in ConcDeltas :
          Invoke(1, "createRateLimitMiddleware", args, d)
     /\ UNCHANGED thrown
  \/ /\ AllIdle
     /\ started < MaxWrapCalls
     /\ \E d \in ConcDeltas : Invoke(1, "GET /api/notifications", <<>>, d)
     /\ UNCHANGED thrown
  \/ Step(1)

SpecWrap == InitWrap /\ [][NextWrap]_vars

(* ------------------------------- claims ------------------------------- *)

Finished(p) == call[p].pc = "done"

Min(a, b) == IF a <= b THEN a ELSE b

\* The shortest block duration of any type: no clean-up pass of any call
\* removes a record younger than this.
MinBlockDuration ==
  CHOOSE d \in {rateLimitConfigs[t].blockDurationMs : t \in Types} :
    \A t \in Types : d <= rateLimitConfigs[t].blockDurationMs

SafeSpan(type) == Min(rateLimitConfigs[type].windowMs, MinBlockDuration)

\* r = ceil(x / d), said without the division.
IsCeil(r, x, d) == r * d >= x /\ (r - 1) * d < x

\* The rows of table s for key with the given blocked flag.
RowsOf(s, key, blocked) ==
  {i \in 1..Len(s) : s[i].identifier = key /\ s[i].blocked = blocked}

\* Table s holds a block record of the call's key that is active at the
\* call's clock reading.
BlockedIn(s, c) ==
  \E i \in RowsOf(s, CallKey(c), TRUE) :
    getTime(s[i].created_at) >= c.now - Config(c).blockDurationMs

\* The i-th failing call of a run of failures on a key that was fresh (no
\* record) when the run began; the clock reading of the run's first call.
RunIndex(c) == hist[CallKey(c)].fails + 1

RunStart(c) ==
  IF hist[CallKey(c)].fails = 0 THEN c.now ELSE hist[CallKey(c)].since

RunOutcome(c) ==
  LET N == Config(c).maxAttempts
      i == RunIndex(c)
  IN  IF i < N
        THEN /\ c.result.allowed
             /\ c.result.remaining = N - i
             /\ i > 1 => c.result.remaining < hist[CallKey(c)].prev.remaining
        ELSE /\ ~c.result.allowed
             /\ c.result.remaining = 0
             /\ RowsOf(store, CallKey(c), TRUE) # {}

\* C1 (as amended): with calls one at a time and the store working, in a run
\* of failing calls on a key that held no record when the run began, with no
\* success call for the key in between and every call within SafeSpan of the
\* first, calls 1..N-1 return allowed with remaining = N - i, strictly less
\* than the call before, and call N returns allowed = false, remaining = 0
\* and leaves a blocked record for the key.
C1_FailureRun ==
  \A p \in Procs :
    LET c == call[p]
    IN  ( /\ Finished(p)
          /\ ~c.success
          /\ RunIndex(c) <= Config(c).maxAttempts
          /\ c.now - RunStart(c) <= SafeSpan(c.type) )
        => RunOutcome(c)

\* C1 witness: the N-th failing call of such a run has been denied and the
\* block record is in the table.
C1_Witness ==
  \E p \in Procs :
    LET c == call[p]
    IN  /\ Finished(p)
        /\ ~c.success
        /\ RunIndex(c) = Config(c).maxAttempts
        /\ c.now - RunStart(c) <= SafeSpan(c.type)
        /\ ~c.result.allowed
        /\ RowsOf(store, CallKey(c), TRUE) # {}

\* C1 as stated: the same of any run of failing calls with no success call in
\* between, however the calls are spaced in time.
C1_AnySpacing ==
  \A p \in Procs :
    LET c == call[p]
    IN  ( /\ Finished(p)
          /\ ~c.success
          /\ RunIndex(c) <= Config(c).maxAttempts )
        => RunOutcome(c)

\* C2 as stated: once a block record of key K was inserted at time t, every
\* call for K at a time in [t, t + block_duration_ms] returns allowed = false,
\* whatever calls happened in between.
C2_BlockRunsItsCourse ==
  \A p \in Procs :
    LET c == call[p]
        t == hist[CallKey(c)].blockAt
    IN  ( /\ Finished(p)
          /\ ~c.threw
          /\ t # -1
          /\ t <= c.now
          /\ c.now <= t + Config(c).blockDurationMs )
        => ~c.result.allowed

\* Blocked at entry, and the previous call for the key was denied too.
StillBlocked(c) ==
  /\ BlockedIn(c.before, c)
  /\ hist[CallKey(c)].prev # NoResult
  /\ ~hist[CallKey(c)].prev.allowed

\* C3: with calls one at a time and the store working, a call that finds its
\* key blocked returns allowed = false and remaining = 0, with a reset_time no
\* greater than the one the previous denied call returned; this also when
\* success = true, and every active block record of the key stays in the table.
C3_BlockedStaysBlocked ==
  \A p \in Procs :
    LET c == call[p]
    IN  (Finished(p) /\ BlockedIn(c.before, c))
        => /\ ~c.result.allowed
           /\ c.result.remaining = 0
           /\ StillBlocked(c)
                => c.result.resetTime <= hist[CallKey(c)].prev.resetTime
           /\ \A i \in RowsOf(c.before, CallKey(c), TRUE) :
                getTime(c.before[i].created_at)
                    >= c.now - Config(c).blockDurationMs
                => \E j \in RowsOf(store, CallKey(c), TRUE) :
                     store[j] = c.before[i]

\* C3 witness: a success call on a blocked key, after an earlier denied call,
\* has been denied with a smaller reset_time.
C3_Witness ==
  \E p \in Procs :
    LET c == call[p]
    IN  /\ Finished(p)
        /\ c.success
        /\ StillBlocked(c)
        /\ ~c.result.allowed
        /\ c.result.resetTime < hist[CallKey(c)].prev.resetTime
        /\ BlockedIn(store, c)

\* C4: with calls one at a time and the store working, the first failing call
\* on a key after an allowed success call (or on a fresh key) returns allowed
\* with remaining = N - 1, however many failures came before the success.
C4_SuccessResets ==
  \A p \in Procs :
    LET c == call[p]
    IN  (Finished(p) /\ ~c.success /\ hist[CallKey(c)].fails = 0)
        => /\ c.result.allowed
           /\ c.result.remaining = Config(c).maxAttempts - 1

\* C4 witness: fail, fail, succeed, fail on one key; the last call reports
\* remaining = N - 1.
C4_Witness ==
  \E p \in Procs :
    LET c == call[p]
    IN  /\ Finished(p)
        /\ ~c.success
        /\ hist[CallKey(c)].fails = 0
        /\ hist[CallKey(c)].ended >= 2
        /\ c.result.allowed
        /\ c.result.remaining = Config(c).maxAttempts - 1

\* C5: if a store statement of a call raises, at whichever step and whatever
\* the table holds, the call returns {allowed: true, remaining: max_attempts,
\* reset_time: ceil(window_ms / 1000)}.
C5_FailOpen ==
  \A p \in Procs :
    LET c == call[p]
    IN  (Finished(p) /\ c.threw)
        => /\ c.result.allowed
           /\ c.result.remaining = Config(c).maxAttempts
           /\ IsCeil(c.result.resetTime, Config(c).windowMs, 1000)

\* C5 witness: a call on a key with an active block record has been let
\* through because a store statement raised.
C5_Witness ==
  \E p \in Procs :
    LET c == call[p]
    IN  /\ Finished(p)
        /\ c.threw
        /\ BlockedIn(c.before, c)
        /\ BlockedIn(store, c)
        /\ c.result.allowed

\* The call inserted a block record: the table holds more of them for the
\* key than when the call was entered.
CreatedBlock(c) ==
  Cardinality(RowsOf(store, CallKey(c), TRUE))
    > Cardinality(RowsOf(c.before, CallKey(c), TRUE))

\* Milliseconds left of the most recent block record of the call's key in s.
BlockLeft(s, c) ==
  LET rows == RowsOf(s, CallKey(c), TRUE)
      last == CHOOSE i \in rows :
                \A j \in rows :
                  getTime(s[i].created_at) >= getTime(s[j].created_at)
  IN  getTime(s[last].created_at) + Config(c).blockDurationMs - c.now

\* C6: with calls one at a time and the store working, the call that creates
\* the block returns reset_time = ceil(block_duration_ms / 1000), 3600 for
\* type auth on the 5th failure; a later call that finds the block returns
\* max(0, ceil((created_at + block_duration_ms - now) / 1000)) of the most
\* recent active block record.
C6_ResetTime ==
  \A p \in Procs :
    LET c == call[p]
    IN  /\ (Finished(p) /\ CreatedBlock(c))
             => /\ IsCeil(c.result.resetTime, Config(c).blockDurationMs, 1000)
                /\ (c.type = "auth") => (c.result.resetTime = 3600)
                /\ (c.type = "auth" /\ c.now - RunStart(c) <= SafeSpan(c.type))
                     => (RunIndex(c) = 5)
        /\ (Finished(p) /\ BlockedIn(c.before, c))
             => IF BlockLeft(c.before, c) <= 0
                  THEN c.result.resetTime = 0
                  ELSE IsCeil(c.result.resetTime, BlockLeft(c.before, c), 1000)

\* C6 witness: a call made while the block runs got a reset_time that is
\* rounded up from a fraction of a second and is below a later one's ceiling.
C6_Witness ==
  \E p \in Procs :
    LET c == call[p]
    IN  /\ Finished(p)
        /\ BlockedIn(c.before, c)
        /\ BlockLeft(c.before, c) % 1000 # 0
        /\ hist[CallKey(c)].prev.resetTime * 1000 = Config(c).blockDurationMs
        /\ c.result.resetTime * 1000 > BlockLeft(c.before, c)

\* C7 (as amended): with calls one at a time and the store working, after a
\* success call that was allowed (not denied by an active block) the table
\* holds no blocked = false record of the call's key.
C7_AllowedSuccessPurges ==
  \A p \in Procs :
    LET c == call[p]
    IN  (Finished(p) /\ c.success /\ c.result.allowed)
        => RowsOf(store, CallKey(c), FALSE) = {}

\* C7 witness: an allowed success call has purged earlier failures.
C7_Witness ==
  \E p \in Procs :
    LET c == call[p]
    IN  /\ Finished(p)
        /\ c.success
        /\ c.result.allowed
        /\ Cardinality(RowsOf(c.before, CallKey(c), FALSE)) >= 2
        /\ RowsOf(store, CallKey(c), FALSE) = {}

\* C7 as stated: the same after any success call, whatever the state before.
C7_AnySuccessPurges ==
  \A p \in Procs :
    LET c == call[p]
    IN  (Finished(p) /\ c.success)
        => RowsOf(store, CallKey(c), FALSE) = {}

\* The records of s that a call's clean-up pass keeps.
Unexpired(s, c) ==
  SelectSeq(s, LAMBDA r :
    getTime(r.created_at) >= c.now - Config(c).blockDurationMs)

FreshResult(c) ==
  /\ c.result.allowed
  /\ c.result.remaining = Config(c).maxAttempts
  /\ IsCeil(c.result.resetTime, Config(c).windowMs, 1000)

\* C8 (as amended): with calls one at a time and the store working, a success
\* call for a key with no failing record returns {allowed: true, remaining:
\* max_attempts, reset_time: ceil(window_ms / 1000)} and changes the table
\* only by the clean-up pass, which removes the records of any key older than
\* now - block_duration_ms; when no record is that old (as when the call is
\* repeated at once) the table is unchanged.
C8_SuccessOnCleanKey ==
  \A p \in Procs :
    LET c == call[p]
    IN  (Finished(p) /\ c.success /\ RowsOf(c.before, CallKey(c), FALSE) = {})
        => /\ FreshResult(c)
           /\ store = Unexpired(c.before, c)

\* C8 witness: such a call has returned and left a table that holds other
\* keys' records as it was.
C8_Witness ==
  \E p \in Procs :
    LET c == call[p]
    IN  /\ Finished(p)
        /\ c.success
        /\ RowsOf(c.before, CallKey(c), FALSE) = {}
        /\ c.before # <<>>
        /\ store = c.before
        /\ FreshResult(c)

\* C8 as stated: such a call leaves the whole table unchanged.
C8_NoOp ==
  \A p \in Procs :
    LET c == call[p]
    IN  (Finished(p) /\ c.success /\ RowsOf(c.before, CallKey(c), FALSE) = {})
        => /\ FreshResult(c)
           /\ store = c.before

\* C10: with calls one at a time and the store working, the clean-up pass of
\* a call of type T leaves exactly the records, of every key and type, with
\* created_at >= now - block_duration_ms(T).
C10_CleanupByAgeOnly ==
  \A p \in Procs :
    LET c == call[p]
    IN  c.pc = "blockCheck" => store = Unexpired(c.before, c)

\* C10 witness: the clean-up pass of an api_general call has deleted a
\* password_reset block record that is still active (younger than 24 hours).
C10_Witness ==
  \E p \in Procs :
    LET c == call[p]
    IN  /\ c.pc = "blockCheck"
        /\ c.type = "api_general"
        /\ \E i \in 1..Len(c.before) :
             /\ c.before[i].blocked
             /\ \E id \in Identifiers :
                  c.before[i].identifier = KeyOf("password_reset", id)
             /\ getTime(c.before[i].created_at)
                  >= c.now - rateLimitConfigs["password_reset"].blockDurationMs
             /\ \A j \in 1..Len(store) : store[j] # c.before[i]

\* Two failing calls for one key have returned after both read the same
\* count before either recorded its attempt.
RacedPair(p, q) ==
  /\ p # q
  /\ Finished(p) /\ Finished(q)
  /\ call[p].raced /\ call[q].raced

\* The failure records of the call's key in s that fall in the call's window.
InWindow(s, c) ==
  {i \in RowsOf(s, CallKey(c), FALSE) :
     getTime(s[i].created_at) >= c.now - Config(c).windowMs}

\* C9: with the statements of two failing calls for one key interleaved, two
\* calls that read the same current_count n with n + 1 < max_attempts before
\* either inserts both insert a record (two records carry attempt_count
\* n + 1, and n + 2 failures are in the window) and both return allowed with
\* the same remaining = max_attempts - (n + 1), each as if it were alone.
C9_BothPassUnderOneCeiling ==
  \A p, q \in Procs :
    LET c == call[p]
        n == c.currentCount
    IN  (RacedPair(p, q) /\ n + 1 < Config(c).maxAttempts)
        => /\ call[q].currentCount = n
           /\ c.result.allowed /\ call[q].result.allowed
           /\ c.result.remaining = Config(c).maxAttempts - (n + 1)
           /\ call[q].result.remaining = c.result.remaining
           /\ Cardinality({i \in RowsOf(store, CallKey(c), FALSE) :
                             store[i].attempt_count = n + 1}) >= 2
           /\ Cardinality(InWindow(store, c)) = n + 2

\* C9 witness: both calls were allowed although together they brought the
\* failures in the window to max_attempts; the table holds max_attempts
\* failure records in the window of either call and no block record.
C9_Witness ==
  \E p, q \in Procs :
    /\ RacedPair(p, q)
    /\ call[p].result.allowed /\ call[q].result.allowed
    /\ Cardinality(InWindow(store, call[p])) = Config(call[p]).maxAttempts
    /\ Cardinality(InWindow(store, call[q])) = Config(call[q]).maxAttempts
    /\ RowsOf(store, CallKey(call[p]), TRUE) = {}

\* C11 as stated: a call whose type is not a registered one never returns a
\* decision (it ends rejected, with no result) and leaves the table as it
\* found it.
C11_UnknownTypeNoDecision ==
  \A p \in Procs :
    LET c == call[p]
    IN  (c.pc # "idle" /\ c.type \notin Types)
        => /\ ~Finished(p)
           /\ c.result = NoResult
           /\ store = c.before

\* C12: with calls one at a time and the store working, a call that is not
\* denied by a block counts exactly the blocked = false records of its key
\* with created_at >= now - window_ms, older ones count for nothing: a failing
\* call is allowed with remaining = max_attempts - (n + 1) when n + 1 is below
\* max_attempts, n being the failures in the window, and inserts a block
\* record only when n + 1 reaches max_attempts.
C12_OnlyWindowCounts ==
  \A p \in Procs :
    LET c == call[p]
        n == Cardinality(InWindow(c.before, c))
        N == Config(c).maxAttempts
    IN  (Finished(p) /\ ~BlockedIn(c.before, c))
        => /\ c.currentCount = n
           /\ ~c.success
                => /\ c.result.allowed <=> (n + 1 < N)
                   /\ c.result.allowed => (c.result.remaining = N - (n + 1))
                   /\ CreatedBlock(c) <=> (n + 1 >= N)

\* C12 witness: a failing call has been allowed and no block record exists
\* although the table now holds max_attempts failure records of the key, one
\* of them older than the window.
C12_Witness ==
  \E p \in Procs :
    LET c == call[p]
    IN  /\ Finished(p)
        /\ ~c.success
        /\ c.result.allowed
        /\ c.result.remaining > 0
        /\ Cardinality(RowsOf(store, CallKey(c), FALSE)) >= Config(c).maxAttempts
        /\ InWindow(c.before, c) # RowsOf(c.before, CallKey(c), FALSE)
        /\ RowsOf(store, CallKey(c), TRUE) = {}

\* C13: a call made through rateLimitAPI with arguments (id, s, ...) returns
\* the result and leaves the table that rateLimit(id, s, "api_general") does
\* on the same table at the same time, whatever further argument is given;
\* one made through rateLimitAuth with (id, s) does as rateLimit(id, s,
\* "auth") and with (id, s, t) as rateLimit(id, s, t); success left out
\* stands for true.
C13_WrappersAddNothing ==
  \A p \in Procs :
    LET c == call[p]
        s == IF Len(c.args) >= 2 THEN c.args[2] ELSE TRUE
        t == IF c.entry = "rateLimitAPI" THEN "api_general"
             ELSE IF Len(c.args) >= 3 THEN c.args[3] ELSE "auth"
    IN  (Finished(p) /\ c.entry \in {"rateLimitAuth", "rateLimitAPI"})
        => [ store |-> store, result |-> c.result ]
             = RunAlone(c.before, c.now, c.args[1], s, t)

\* C13 witness: a failing call made through rateLimitAPI with a third
\* argument "password_reset" has recorded a failure for the api_general key
\* and none for the password_reset key, and one made through rateLimitAuth
\* with that type was denied before it.
C13_Witness ==
  \E p \in Procs :
    LET c == call[p]
    IN  /\ Finished(p)
        /\ c.entry = "rateLimitAPI"
        /\ c.args = <<"ip1", FALSE, "password_reset">>
        /\ c.result.allowed
        /\ c.result.remaining = rateLimitConfigs["api_general"].maxAttempts - 1
        /\ RowsOf(store, KeyOf("api_general", "ip1"), FALSE) # {}
        /\ RowsOf(store, KeyOf("password_reset", "ip1"), TRUE) # {}

Range(s) == {s[i] : i \in 1..Len(s)}

\* Table t is table s without the records in gone, the rest as they were
\* and in their order.
Without(s, t, gone) ==
  /\ gone # {}
  /\ gone \subseteq Range(s)
  /\ t = SelectSeq(s, LAMBDA r : r \notin gone)

\* C14: every step leaves the table as it is, or adds one record at the end
\* (the insert of a call's own key at lines 110-115 or 121-126, every other
\* record unchanged), or takes records away and leaves the rest unchanged:
\* records older than now - block_duration_ms in the clean-up of a call, or
\* blocked = false records of the call's own key in its reset.
C14_RecordLifecycle ==
  [][ \/ store' = store
      \/ \E p \in Procs :
           /\ call[p].pc \in {"record", "block"}
           /\ Len(store') = Len(store) + 1
           /\ store' = Append(store, store'[Len(store')])
           /\ store'[Len(store')].identifier = CallKey(call[p])
           /\ store'[Len(store')].blocked = (call[p].pc = "block")
      \/ \E p \in Procs :
           /\ call[p].pc = "cleanup"
           /\ Without(store, store', Range(store) \ Range(store'))
           /\ \A r \in Range(store) \ Range(store') :
                getTime(r.created_at)
                  < call[p].now - Config(call[p]).blockDurationMs
      \/ \E p \in Procs :
           /\ call[p].pc = "reset"
           /\ Without(store, store', Range(store) \ Range(store'))
           /\ \A r \in Range(store) \ Range(store') :
                r.identifier = CallKey(call[p]) /\ ~r.blocked ]_vars

\* C14 witness: a success call has returned after its clean-up took away an
\* expired failure record of its key and its reset took away one that was
\* not expired.
C14_Witness ==
  \E p \in Procs :
    LET c    == call[p]
        rows == RowsOf(c.before, CallKey(c), FALSE)
        old  == c.now - Config(c).blockDurationMs
    IN  /\ Finished(p)
        /\ c.success
        /\ c.result.allowed
        /\ \E i \in rows : getTime(c.before[i].created_at) < old
        /\ \E i \in rows : getTime(c.before[i].created_at) >= old
        /\ RowsOf(store, CallKey(c), FALSE) = {}

\* The records of key in table s, in their order.
KeyRows(s, key) == SelectSeq(s, LAMBDA r : r.identifier = key)

\* What a failing call that read count n adds to the table, and what it
\* returns when it adds the block record.
Added(c, n) ==
  LET row(b) == [ identifier |-> CallKey(c), attempt_count |-> n + 1,
                  blocked |-> b, created_at |-> toISOString(c.now) ]
  IN  IF n + 1 >= Config(c).maxAttempts
        THEN <<row(FALSE), row(TRUE)>> ELSE <<row(FALSE)>>

DeniedAtLimit(c, n) ==
  n + 1 >= Config(c).maxAttempts
    => /\ ~c.result.allowed
       /\ c.result.remaining = 0
       /\ IsCeil(c.result.resetTime, Config(c).blockDurationMs, 1000)

\* C15 (as amended): with calls one at a time and the store working, a
\* failing call for a key that is not blocked, with n failures in the window,
\* adds one blocked = false record of the key with attempt_count = n + 1 and
\* created_at = now, and after it one blocked = true record with the same
\* values exactly when n + 1 >= max_attempts, then returning {allowed: false,
\* remaining: 0, reset_time: ceil(block_duration_ms / 1000)}; of the key's
\* records it takes away only those older than now - block_duration_ms (the
\* clean-up pass).
C15_FailingCallEffect ==
  \A p \in Procs :
    LET c == call[p]
        n == Cardinality(InWindow(c.before, c))
    IN  (Finished(p) /\ ~c.success /\ ~BlockedIn(c.before, c))
        => /\ KeyRows(store, CallKey(c))
                = KeyRows(Unexpired(c.before, c), CallKey(c)) \o Added(c, n)
           /\ DeniedAtLimit(c, n)

\* C15 witness: a failing call has added its failure record and the block
\* record after its clean-up pass took away an expired record of the key.
C15_Witness ==
  \E p \in Procs :
    LET c == call[p]
    IN  /\ Finished(p)
        /\ ~c.success
        /\ ~BlockedIn(c.before, c)
        /\ ~c.result.allowed
        /\ Len(KeyRows(Unexpired(c.before, c), CallKey(c)))
             < Len(KeyRows(c.before, CallKey(c)))
        /\ Len(KeyRows(store, CallKey(c)))
             = Len(KeyRows(Unexpired(c.before, c), CallKey(c))) + 2

\* C15 as stated: the same, the call taking away no record of the key.
C15_DeletesNothingOfKey ==
  \A p \in Procs :
    LET c == call[p]
        n == Cardinality(InWindow(c.before, c))
    IN  (Finished(p) /\ ~c.success /\ ~BlockedIn(c.before, c))
        => /\ KeyRows(store, CallKey(c))
                = KeyRows(c.before, CallKey(c)) \o Added(c, n)
           /\ DeniedAtLimit(c, n)

\* C16: with calls one at a time, an allowed result that does not come from
\* the catch block has remaining = max(0, max_attempts - (n + (success ? 0 :
\* 1))) and reset_time = ceil(window_ms / 1000), n being the failures of the
\* key in the window when the call was entered, before its own insert or
\* purge; a success call that purges n > 0 failures reports max_attempts - n.
C16_AllowedResult ==
  \A p \in Procs :
    LET c == call[p]
        n == Cardinality(InWindow(c.before, c))
        N == Config(c).maxAttempts
        m == N - (n + (IF c.success THEN 0 ELSE 1))
    IN  (Finished(p) /\ c.result.allowed /\ ~c.threw)
        => /\ c.result.remaining = (IF m >= 0 THEN m ELSE 0)
           /\ IsCeil(c.result.resetTime, Config(c).windowMs, 1000)
           /\ (c.success /\ n > 0) => c.result.remaining < N

\* C16 witness: a success call has purged two failures of its key and
\* reported remaining = max_attempts - 2.
C16_Witness ==
  \E p \in Procs :
    LET c == call[p]
    IN  /\ Finished(p)
        /\ c.success
        /\ ~c.threw
        /\ c.result.allowed
        /\ Cardinality(InWindow(c.before, c)) = 2
        /\ c.result.remaining = Config(c).maxAttempts - 2
        /\ RowsOf(store, CallKey(c), FALSE) = {}

\* Record r is older than the cut-off of call c's clean-up pass.
Expired(r, c) == getTime(r.created_at) < c.now - Config(c).blockDurationMs

\* The call has run its clean-up pass and has not yet changed the table
\* otherwise, or has returned a denial on finding a block record.
CleanedOnly(c) ==
  \/ c.pc \in {"blockCheck", "count", "record", "reset"}
  \/ c.pc = "done" /\ ~c.result.allowed /\ BlockedIn(c.before, c)

\* C17: with calls one at a time and the store working, once the first store
\* statement of a call of type T has run, the table is the table the call
\* found without the records (of any key) with created_at < now -
\* block_duration_ms(T) and with every other record, this also for a call
\* that goes on to return a denial for a block; no later statement of the
\* call takes away a record that old, and no record leaves the table while no
\* call is running.
C17_CleanupFirstAndOnce ==
  /\ [](\A p \in Procs :
          CleanedOnly(call[p]) => store = Unexpired(call[p].before, call[p]))
  /\ [][ /\ AllIdle => store' = store
         /\ \A r \in Range(store) \ Range(store') :
              \E p \in Procs :
                \/ call[p].pc = "cleanup" /\ Expired(r, call[p])
                \/ call[p].pc = "reset" /\ ~Expired(r, call[p]) ]_vars

\* C17 witness: a call has returned a denial for an active block after its
\* clean-up pass took away an expired record and kept the others, one of
\* them with created_at = now - block_duration_ms.
C17_Witness ==
  \E p \in Procs :
    LET c == call[p]
    IN  /\ Finished(p)
        /\ ~c.result.allowed
        /\ BlockedIn(c.before, c)
        /\ Len(store) < Len(c.before)
        /\ store = Unexpired(c.before, c)
        /\ \E i \in 1..Len(store) : Expired(store[i], [c EXCEPT !.now = @ + 1])

\* All the callers of the run use one type.
OneType == Cardinality({who[1] : who \in callers}) = 1

\* The call is the first for its key at a time later than created_at +
\* block_duration_ms of the key's last block record: the call before it was
\* denied.
FirstAfterExpiry(c) ==
  LET h == hist[CallKey(c)]
  IN  /\ h.blockAt # -1
      /\ c.now > h.blockAt + Config(c).blockDurationMs
      /\ h.prev # NoResult
      /\ ~h.prev.allowed

\* C18: with calls one at a time, all of one type, and the store working,
\* the first call for a key later than created_at + block_duration_ms of its
\* block record is allowed, with remaining = max_attempts - 1 if it is a
\* failing call (max_attempts if not); window_ms <= block_duration_ms for
\* every type; and no call is denied later than block_duration_ms after the
\* key's last block record was created.
C18_ExpiryGivesFreshStart ==
  /\ \A t \in Types :
       rateLimitConfigs[t].windowMs <= rateLimitConfigs[t].blockDurationMs
  /\ \A p \in Procs :
       LET c == call[p]
           N == Config(c).maxAttempts
       IN  (Finished(p) /\ OneType)
           => /\ FirstAfterExpiry(c)
                   => /\ c.result.allowed
                      /\ c.result.remaining = (IF c.success THEN N ELSE N - 1)
                      /\ InWindow(c.before, c) = {}
              /\ ~c.result.allowed
                   => /\ hist[CallKey(c)].blockAt # -1
                      /\ c.now <= hist[CallKey(c)].blockAt
                                    + Config(c).blockDurationMs

\* C18 witness: the block of a key has expired and a failing call, the first
\* after a denied one, has been allowed with remaining = max_attempts - 1.
C18_Witness ==
  \E p \in Procs :
    LET c == call[p]
    IN  /\ Finished(p)
        /\ OneType
        /\ FirstAfterExpiry(c)
        /\ ~c.success
        /\ c.result.allowed
        /\ c.result.remaining = Config(c).maxAttempts - 1
        /\ RowsOf(store, CallKey(c), TRUE) = {}

\* What a denied call must leave as it is: the key's records and, with them,
\* the time left of the key's block.
SameForKey(s, c) ==
  /\ KeyRows(store, CallKey(c)) = KeyRows(s, CallKey(c))
  /\ BlockLeft(store, c) = BlockLeft(c.before, c)
  /\ Cardinality(InWindow(store, c)) = Cardinality(InWindow(c.before, c))

\* C19 (as amended): with calls one at a time and the store working, a call
\* that finds its key blocked adds no record and purges none of the key's
\* failures; of the key's records only those older than now -
\* block_duration_ms go (the clean-up pass), so the failures in the window
\* and the block's end, created_at + block_duration_ms of the block record,
\* are what they were.
C19_BlockedCallChangesNothing ==
  \A p \in Procs :
    LET c == call[p]
    IN  (Finished(p) /\ BlockedIn(c.before, c))
        => SameForKey(Unexpired(c.before, c), c)

\* C19 witness: a failing call was denied for a block, and the key has the
\* records it had, less one that had expired.
C19_Witness ==
  \E p \in Procs :
    LET c == call[p]
    IN  /\ Finished(p)
        /\ ~c.success
        /\ BlockedIn(c.before, c)
        /\ ~c.result.allowed
        /\ SameForKey(Unexpired(c.before, c), c)
        /\ Len(KeyRows(store, CallKey(c))) < Len(KeyRows(c.before, CallKey(c)))

\* C19 as stated: such a call leaves every record of the key in the table.
C19_NoChangeForKey ==
  \A p \in Procs :
    LET c == call[p]
    IN  (Finished(p) /\ BlockedIn(c.before, c))
        => SameForKey(c.before, c)

\* The failure records of a key of type t that lie in the window that ends
\* at the clock's reading, and whether the key has a block record that is
\* active at that reading.
FailuresNow(t, i) ==
  { j \in RowsOf(store, KeyOf(t, i), FALSE) :
      getTime(store[j].created_at) >= clock - rateLimitConfigs[t].windowMs }

BlockedNow(t, i) ==
  \E j \in RowsOf(store, KeyOf(t, i), TRUE) :
    getTime(store[j].created_at) >= clock - rateLimitConfigs[t].blockDurationMs

BlockCount(s, k) == Cardinality({i \in 1..Len(s) : s[i].identifier = k /\ s[i].blocked})

\* The failing calls for the call's key, this one included, made within
\* window_ms before it with no success call for the key among them.
FailingCallsInWindow(c) == Len(Recent(hist[CallKey(c)].recent, c)) + 1

\* While call p runs, the table holds more block records of a key than when
\* the call was entered only if p is a failing call for that key, has added
\* one, and is at least the max_attempts-th failing call for the key within
\* window_ms with no success call for the key among them.
Justified(p) ==
    LET c == call[p]
    IN  c.pc # "idle"
        => \A who \in callers :
             LET k == KeyOf(who[1], who[2])
             IN  BlockCount(store, k) > BlockCount(c.before, k)
                 => /\ k = CallKey(c)
                    /\ ~c.success
                    /\ Finished(p)
                    /\ BlockCount(store, k) = BlockCount(c.before, k) + 1
                    /\ FailingCallsInWindow(c) >= Config(c).maxAttempts

C22_KeyIsolation ==
  \A p \in Procs :
    LET c == call[p]
    IN  (Finished(p) /\ OneType)
        => c.result = Alone(hist[CallKey(c)].alone, c).result

\* C22 witness: a failing call for one identifier has returned what it
\* returns alone, after the clean-up pass of a call for another identifier of
\* the same type took away a record of its key that its own calls had left.
C22_Witness ==
  \E p \in Procs :
    LET c == call[p]
        k == CallKey(c)
    IN  /\ Finished(p)
        /\ OneType
        /\ Cardinality(callers) = 2
        /\ ~c.success
        /\ Len(KeyRows(hist[k].alone, k)) > Len(KeyRows(c.before, k))
        /\ c.result = Alone(hist[k].alone, c).result

\* No failing call for the call's key has returned so far.
OnlySuccessSoFar(c) ==
  hist[CallKey(c)].fails = 0 /\ hist[CallKey(c)].ended = 0

\* The call was made without a way to say success = false: through
\* rateLimitAPI with the identifier alone, through a function made by
\* createRateLimitMiddleware, or by the GET handler of /api/notifications.
SuccessByDefault(c) ==
  \/ c.entry = "rateLimitAPI" /\ Len(c.args) = 1
  \/ c.entry = "createRateLimitMiddleware"
  \/ c.entry = "GET /api/notifications"

InBounds(c) ==
  /\ c.result.remaining \in 0..Config(c).maxAttempts
  /\ c.result.resetTime >= 0
  /\ ~c.result.allowed => c.result.remaining = 0

\* A denied call is told to wait no longer than a whole block duration.
DeniedWithinBlock(c) ==
  ~c.result.allowed
    => c.result.resetTime <= MathCeil(Config(c).blockDurationMs, 1000)

\* An allowed call has at least one attempt left.
AllowedHasOneLeft(c) == c.result.allowed => c.result.remaining >= 1

OwnRecord(c) ==
  [ identifier |-> CallKey(c), attempt_count |-> c.currentCount + 1,
    blocked |-> FALSE, created_at |-> toISOString(c.now) ]

\* In this step the store raises at the block insert of call p (line 121),
\* the failure record already inserted.
RaisesAtBlockInsert(p) ==
  /\ call[p].pc = "block"
  /\ call'[p].pc = "done"
  /\ call'[p].threw

\* The step leaves the table as it is, the failure record in it, and the
\* call returns the result of the catch block.
RecordStays(p) ==
  /\ store' = store
  /\ OwnRecord(call[p]) \in Range(store')
  /\ ~\E i \in 1..Len(store') :
        /\ store'[i].identifier = CallKey(call[p])
        /\ store'[i].blocked
        /\ store'[i].created_at = toISOString(call[p].now)
  /\ call'[p].result = FailOpenResult(call[p])
  /\ call'[p].result.allowed

\* Table s holds, within the window of call c, a failure record of the call's
\* key that crossed the limit and has no block record of the same time beside
\* it, and no active block record of the key.
LostBlock(s, c) ==
  /\ ~BlockedIn(s, c)
  /\ \E i \in InWindow(s, c) :
       /\ s[i].attempt_count >= Config(c).maxAttempts
       /\ ~\E j \in RowsOf(s, CallKey(c), TRUE) :
             s[j].created_at = s[i].created_at

\* The call inserted the block record and was denied (lines 119-133).
BlockedAtLast(c) ==
  /\ c.result = LimitResult(c)
  /\ CreatedBlock(c)
  /\ \E i \in RowsOf(store, CallKey(c), TRUE) :
       store[i].created_at = toISOString(c.now)

\* C25 (as amended): with calls one at a time, when the store raises at the
\* block insert of the call that crossed the limit, the call returns the
\* fail-open allow result and its failure record stays in the table, no block
\* record beside it; the next failing call for the key with the store working
\* that still finds max_attempts - 1 failure records of the key within its
\* window inserts the block record and returns allowed = false.
C25_BlockNotLost ==
  /\ [][\A p \in Procs : RaisesAtBlockInsert(p) => RecordStays(p)]_vars
  /\ [](\A p \in Procs :
          LET c == call[p]
          IN  ( /\ Finished(p)
                /\ ~c.threw
                /\ ~c.success
                /\ LostBlock(c.before, c)
                /\ Cardinality(InWindow(c.before, c))
                     >= Config(c).maxAttempts - 1 )
              => BlockedAtLast(c))

\* C25 witness: the store raised at the block insert of the key's previous
\* call, which returned the fail-open result; this failing call found that
\* call's record in its window, inserted the block record and was denied.
C25_Witness ==
  \E p \in Procs :
    LET c == call[p]
    IN  /\ Finished(p)
        /\ ~c.threw
        /\ ~c.success
        /\ thrown = 1
        /\ LostBlock(c.before, c)
        /\ hist[CallKey(c)].prev = FailOpenResult(c)
        /\ BlockedAtLast(c)

\* C25 as stated: the next failing call for the key with the store working,
\* made while the record of the call that crossed the limit is within its
\* window, inserts the block record and returns allowed = false.
C25_NextFailingCallBlocks ==
  \A p \in Procs :
    LET c == call[p]
    IN  ( /\ Finished(p)
          /\ ~c.threw
          /\ ~c.success
          /\ LostBlock(c.before, c) )
        => BlockedAtLast(c)

\* The block records of a key that are active at the present clock reading.
ActiveNow(t, i) ==
  { j \in RowsOf(store, KeyOf(t, i), TRUE) :
      getTime(store[j].created_at) >= clock - rateLimitConfigs[t].blockDurationMs }

\* C26: with a non-decreasing clock, a key has two or more active block
\* records (created_at >= now - block_duration_ms) only if a call for the key
\* was entered while another call for it was running: with the calls for a
\* key one at a time the key has at most one active block record in every
\* state, and with two interleaved failing calls it can have two.
C26_OneActiveBlock ==
  \A who \in callers :
    Cardinality(ActiveNow(who[1], who[2])) >= 2
      => hist[KeyOf(who[1], who[2])].overlap

\* C26 witness: two failing calls for one key, interleaved, have both
\* returned allowed = false and the key has two active block records.
C26_Witness ==
  \E who \in callers :
    /\ Cardinality(ActiveNow(who[1], who[2])) = 2
    /\ hist[KeyOf(who[1], who[2])].overlap
    /\ \A p \in Procs :
         /\ Finished(p)
         /\ CallKey(call[p]) = KeyOf(who[1], who[2])
         /\ ~call[p].success
         /\ call[p].result = LimitResult(call[p])

====
